---- MODULE Spec2Model ----
(***************************************************************************)
(* Backup and restore of package states (src/core/save.rs).                *)
(*                                                                         *)
(* backup_phone serialises the users' package lists to                     *)
(* BACKUP_DIR/<device_id>/<timestamp>.json; restore_backup reads a selected *)
(* backup and computes, against the live device, the commands that bring   *)
(* each package back to its saved state.                                   *)
(*                                                                         *)
(* Option<T> is modelled as a sequence of length 0 (None) or 1 (Some).     *)
(* A file's content is the sequence of JSON tokens serde_json writes.      *)
(* Rust indices are 0-based, TLA+ sequences 1-based: packages[user_index]  *)
(* is packages[user_index + 1] here.                                       *)
(***************************************************************************)
EXTENDS Integers, Sequences, FiniteSets, TLC

VARIABLES
    user_list,  \* Phone.user_list of the live device: sequence of User
    packages,   \* phone_packages: per live user index, a sequence of PackageRow
    settings,   \* DeviceSettings.backup: selected, selected_user (Options)
    files,      \* BACKUP_DIR/<device_id>/: timestamp -> Option<content>
    clock,      \* chrono::Local::now() at second resolution
    calls,      \* number of backup_phone calls made so far
    phase,      \* "idle" | "restored" | "executed"
    last        \* outcome of the last operation

vars == <<user_list, packages, settings, files, clock, calls, phase, last>>

----------------------------------------------------------------------------
\* Bounds of the model.

MaxUsers == 2
MaxPkgs == 2
MaxCalls == 2

\* u16::MAX, the range of UserBackup.id.
U16Max == 65535

Names == {"com.foo", "com.bar"}
PackageStates == {"Enabled", "Disabled"}
UserIds == {0, 10}
DeviceId == "emulator-5554"
\* The seconds at which a call can be made: one per call.
Timestamps == 1..MaxCalls

None == <<>>
Some(x) == <<x>>

\* All sequences over S of length at most n.
RECURSIVE SeqsUpTo(_, _)
SeqsUpTo(S, n) ==
    IF n = 0 THEN {<<>>}
    ELSE LET shorter == SeqsUpTo(S, n - 1)
         IN shorter \cup {Append(s, x) : s \in shorter, x \in S}

\* No two elements of s have the same key.
Distinct(s, KeyOf(_)) ==
    \A i, j \in 1..Len(s) : KeyOf(s[i]) = KeyOf(s[j]) => i = j

----------------------------------------------------------------------------
\* Data types.

\* sync::User
User(id, index) == [id |-> id, index |-> index, protected |-> FALSE]

\* gui::widgets::package_row::PackageRow: name and state, and the fields of
\* the row that a backup does not keep (here: selected).
PackageRow(name, state) == [name |-> name, state |-> state, selected |-> FALSE]

\* sync::CorePackage
CorePackage(name, state) == [name |-> name, state |-> state]

\* struct UserBackup
UserBackup(id, pkgs) == [id |-> id, packages |-> pkgs]

\* struct PhoneBackup
PhoneBackup(device_id, users) == [device_id |-> device_id, users |-> users]

\* struct BackupPackage
BackupPackage(index, commands) == [index |-> index, commands |-> commands]

NameOf(p) == p.name
IdOf(u) == u.id

\* The inputs the operations are run on.
PackageRowLists ==
    {s \in SeqsUpTo({PackageRow(n, st) : n \in Names, st \in PackageStates}, MaxPkgs) :
        Distinct(s, NameOf)}

CorePackageLists ==
    {s \in SeqsUpTo({CorePackage(n, st) : n \in Names, st \in PackageStates}, MaxPkgs) :
        Distinct(s, NameOf)}

\* A live user table: unique ids, index = position in the table.
UserLists ==
    {[i \in 1..Len(s) |-> User(s[i], i - 1)] :
        s \in {t \in SeqsUpTo(UserIds, MaxUsers) : \A i, j \in 1..Len(t) : t[i] = t[j] => i = j}}

\* The per-user package lists handed in with a user table: one per user, or
\* fewer (the lists of the later users not loaded).
PackagesFor(ul) == UNION {[1..n -> PackageRowLists] : n \in 0..Len(ul)}

PhoneBackups ==
    {PhoneBackup(DeviceId, us) :
        us \in {t \in SeqsUpTo({UserBackup(i, ps) : i \in UserIds, ps \in CorePackageLists}, MaxUsers) :
                    Distinct(t, IdOf)}}

----------------------------------------------------------------------------
\* serde_json, token by token.  A token is <<kind, text>>; a number keeps
\* its value: <<"num", 10>>.

Punct(c) == <<"punct", c>>
Key(k) == <<"key", k>>
Str(s) == <<"str", s>>
Num(n) == <<"num", n>>

RECURSIVE Concat(_)
Concat(ss) == IF ss = <<>> THEN <<>> ELSE Head(ss) \o Concat(Tail(ss))

\* #[derive(Serialize)] for CorePackage
SerPackage(p) ==
    <<Punct("{"), Key("name"), Str(p.name), Key("state"), Str(p.state), Punct("}")>>

\* #[derive(Serialize)] for UserBackup
SerUser(u) ==
    <<Punct("{"), Key("id"), Num(u.id), Key("packages"), Punct("[")>>
    \o Concat([j \in 1..Len(u.packages) |-> SerPackage(u.packages[j])])
    \o <<Punct("]"), Punct("}")>>

\* serde_json::to_string_pretty(&backup)
to_string_pretty(b) ==
    <<Punct("{"), Key("device_id"), Str(b.device_id), Key("users"), Punct("[")>>
    \o Concat([i \in 1..Len(b.users) |-> SerUser(b.users[i])])
    \o <<Punct("]"), Punct("}")>>

\* The parser answers [ok, val, pos]: whether it parsed a value, the value,
\* and the position of the first token after it.
Fail == [ok |-> FALSE, val |-> <<>>, pos |-> 0]
Parsed(v, pos) == [ok |-> TRUE, val |-> v, pos |-> pos]

Tok(d, i) == IF i \in 1..Len(d) THEN d[i] ELSE <<"eof", "">>
IsStr(t) == t[1] = "str"
IsNum(t) == t[1] = "num"

\* #[derive(Deserialize)] for CorePackage; state is an enum: an unknown
\* variant is an error.
DeCorePackage(d, i) ==
    IF /\ Tok(d, i) = Punct("{")
       /\ Tok(d, i + 1) = Key("name") /\ IsStr(Tok(d, i + 2))
       /\ Tok(d, i + 3) = Key("state") /\ IsStr(Tok(d, i + 4))
       /\ Tok(d, i + 4)[2] \in PackageStates
       /\ Tok(d, i + 5) = Punct("}")
    THEN Parsed(CorePackage(Tok(d, i + 2)[2], Tok(d, i + 4)[2]), i + 6)
    ELSE Fail

\* Vec<CorePackage>: the elements from position i up to the closing bracket.
RECURSIVE DePackages(_, _, _)
DePackages(d, i, acc) ==
    IF Tok(d, i) = Punct("]") THEN Parsed(acc, i + 1)
    ELSE LET p == DeCorePackage(d, i)
         IN IF p.ok THEN DePackages(d, p.pos, Append(acc, p.val)) ELSE Fail

\* #[derive(Deserialize)] for UserBackup; id is a u16.
DeUserBackup(d, i) ==
    IF /\ Tok(d, i) = Punct("{")
       /\ Tok(d, i + 1) = Key("id") /\ IsNum(Tok(d, i + 2))
       /\ Tok(d, i + 2)[2] \in 0..U16Max
       /\ Tok(d, i + 3) = Key("packages") /\ Tok(d, i + 4) = Punct("[")
    THEN LET ps == DePackages(d, i + 5, <<>>)
         IN IF ps.ok /\ Tok(d, ps.pos) = Punct("}")
            THEN Parsed(UserBackup(Tok(d, i + 2)[2], ps.val), ps.pos + 1)
            ELSE Fail
    ELSE Fail

\* Vec<UserBackup>
RECURSIVE DeUsers(_, _, _)
DeUsers(d, i, acc) ==
    IF Tok(d, i) = Punct("]") THEN Parsed(acc, i + 1)
    ELSE LET u == DeUserBackup(d, i)
         IN IF u.ok THEN DeUsers(d, u.pos, Append(acc, u.val)) ELSE Fail

\* serde_json::from_str::<PhoneBackup>(&data): Some(backup), or None for a
\* parse error (trailing tokens are an error too).
from_str(d) ==
    IF /\ Tok(d, 1) = Punct("{")
       /\ Tok(d, 2) = Key("device_id") /\ IsStr(Tok(d, 3))
       /\ Tok(d, 4) = Key("users") /\ Tok(d, 5) = Punct("[")
    THEN LET us == DeUsers(d, 6, <<>>)
         IN IF us.ok /\ Tok(d, us.pos) = Punct("}") /\ us.pos = Len(d)
            THEN Some(PhoneBackup(Tok(d, 3)[2], us.val))
            ELSE None
    ELSE None

----------------------------------------------------------------------------
\* The file system under BACKUP_DIR/<device_id>/.

\* fs::read_to_string(path): Some(content), or None when the file is absent.
read_to_string(fs, path) == IF path \in DOMAIN fs THEN fs[path] ELSE None

\* What a write that fails part-way leaves in the file: nothing, half of
\* the data, or all but its end.
ShortWrites(data) ==
    {SubSeq(data, 1, k) : k \in {0, Len(data) \div 2, Len(data) - 1}}

----------------------------------------------------------------------------
\* Outcomes.  An error is the String the code returns, kept as its kind and
\* the values formatted into it.

Error(tag, name, id) == [tag |-> tag, name |-> name, id |-> id]
NoError == Error("", "", 0)

\* "No backup selected" / "No user selected"
NoBackupSelected == Error("NoSelection", "backup", 0)
NoUserSelected == Error("NoSelection", "user", 0)
\* e.to_string() of an io::Error / of a serde_json::Error
IoError == Error("Io", "", 0)
ParseError == Error("Parse", "", 0)
\* "User {} doesn't exist"
UserNotFound(id) == Error("UserNotFound", "", id)
\* "Package {} not found for user {}"
PackageNotFound(name, id) == Error("PackageNotFound", name, id)

\* Result<Vec<BackupPackage>, String>, or a panic that unwinds out of the
\* call; read tells whether the backup file was read.
Ok(plan, read) == [kind |-> "Ok", plan |-> plan, err |-> NoError, read |-> read]
Err(e, read) == [kind |-> "Err", plan |-> <<>>, err |-> e, read |-> read]
Panic(read) == [kind |-> "Panic", plan |-> <<>>, err |-> NoError, read |-> read]

----------------------------------------------------------------------------
\* restore_backup

Min(S) == CHOOSE x \in S : \A y \in S : x <= y

\* .iter().find(|x| x.id == id) on user_list
find_user(ul, id) ==
    LET hits == {i \in 1..Len(ul) : ul[i].id = id}
    IN IF hits = {} THEN None ELSE Some(ul[Min(hits)])

\* .iter().find(|x| x.name == name) on one user's package rows
find_package(rows, name) ==
    LET hits == {i \in 1..Len(rows) : rows[i].name = name}
    IN IF hits = {} THEN None ELSE Some(rows[Min(hits)])

\* From<&PackageRow> for CorePackage (p.into())
into(p) == CorePackage(p.name, p.state)

\* sync::apply_pkg_state_commands: the commands that put the package into
\* the wanted state for the given user; none when it is in that state.  A
\* command is [pkg, state, user]: set pkg to state for the user with id user.
apply_pkg_state_commands(package, wanted_state, selected_user, device) ==
    IF package.state = wanted_state THEN <<>>
    ELSE <<[pkg |-> package.name, state |-> wanted_state, user |-> selected_user.id]>>

\* push_commands with the entry's own position in the plan as its index.
push_commands_position(commands, i, p_commands) ==
    IF p_commands # <<>> THEN Append(commands, BackupPackage(Len(commands), p_commands))
    ELSE commands

\* push_commands without the test for an empty command list.
push_commands_always(commands, i, p_commands) ==
    Append(commands, BackupPackage(i, p_commands))

\* if !p_commands.is_empty() { commands.push(BackupPackage { index: i, .. }) }
\* i is the 0-based position of the package in its user's backup.
push_commands(commands, i, p_commands) ==
    IF p_commands # <<>> THEN Append(commands, BackupPackage(i, p_commands))
    ELSE commands

\* push_sentinel without the test for an empty plan.
push_sentinel_always(commands) == Append(commands, BackupPackage(0, <<>>))

\* if !commands.is_empty() { commands.push(BackupPackage { index: 0, commands: [] }) }
push_sentinel(commands) ==
    IF commands # <<>> THEN Append(commands, BackupPackage(0, <<>>))
    ELSE commands

\* The inner loop over user_backup.packages from its j-th package (1-based).
RECURSIVE packages_loop(_, _, _, _, _, _, _)
packages_loop(user_backup, j, user_index, commands, selected_user, device, pkgs) ==
    IF j > Len(user_backup.packages) THEN Ok(commands, TRUE)
    ELSE IF user_index + 1 \notin 1..Len(pkgs) THEN Panic(TRUE)
    ELSE LET backup_package == user_backup.packages[j]
             package == find_package(pkgs[user_index + 1], backup_package.name)
         IN IF package = None
            THEN Err(PackageNotFound(backup_package.name, user_backup.id), TRUE)
            ELSE packages_loop(user_backup, j + 1, user_index,
                     push_commands(commands, j - 1,
                         apply_pkg_state_commands(into(package[1]), backup_package.state,
                                                  selected_user, device)),
                     selected_user, device, pkgs)

\* The outer loop over phone_backup.users from its i-th user (1-based).
RECURSIVE users_loop(_, _, _, _, _, _)
users_loop(users, i, commands, selected_user, device, pkgs) ==
    IF i > Len(users) THEN Ok(commands, TRUE)
    ELSE LET user_backup == users[i]
             user == find_user(device.user_list, user_backup.id)
         IN IF user = None THEN Err(UserNotFound(user_backup.id), TRUE)
            ELSE LET r == packages_loop(user_backup, 1, user[1].index, commands,
                                        selected_user, device, pkgs)
                 IN IF r.kind = "Ok"
                    THEN users_loop(users, i + 1, r.plan, selected_user, device, pkgs)
                    ELSE r

\* restore_backup with both selections checked before the file is read.
restore_backup_selections_first(selected_device, pkgs, st, fs) ==
    IF st.selected = None THEN Err(NoBackupSelected, FALSE)
    ELSE IF st.selected_user = None THEN Err(NoUserSelected, FALSE)
    ELSE LET data == read_to_string(fs, st.selected[1])
         IN IF data = None THEN Err(IoError, TRUE)
            ELSE LET phone_backup == from_str(data[1])
                 IN IF phone_backup = None THEN Err(ParseError, TRUE)
                    ELSE LET r == users_loop(phone_backup[1].users, 1, <<>>,
                                             st.selected_user[1], selected_device, pkgs)
                         IN IF r.kind = "Ok" THEN Ok(push_sentinel(r.plan), TRUE) ELSE r

restore_backup(selected_device, pkgs, st, fs) ==
    IF st.selected = None THEN Err(NoBackupSelected, FALSE)
    ELSE LET data == read_to_string(fs, st.selected[1])
         IN IF data = None THEN Err(IoError, TRUE)
            ELSE LET phone_backup == from_str(data[1])
                 IN IF phone_backup = None THEN Err(ParseError, TRUE)
                    ELSE IF st.selected_user = None THEN Err(NoUserSelected, TRUE)
                    ELSE LET r == users_loop(phone_backup[1].users, 1, <<>>,
                                             st.selected_user[1], selected_device, pkgs)
                         IN IF r.kind = "Ok" THEN Ok(push_sentinel(r.plan), TRUE) ELSE r

\* The executor of a plan: each command sets its package to its state in
\* the package list of the live user it names; a command for a user or a
\* package the device does not have changes nothing.
RunCommand(ul, pkgs, c) ==
    LET user == find_user(ul, c.user)
        Set(row) == IF row.name = c.pkg THEN [row EXCEPT !.state = c.state] ELSE row
    IN IF user = None \/ user[1].index + 1 \notin 1..Len(pkgs) THEN pkgs
       ELSE LET rows == pkgs[user[1].index + 1]
            IN [pkgs EXCEPT ![user[1].index + 1] = [k \in 1..Len(rows) |-> Set(rows[k])]]

RECURSIVE RunCommands(_, _, _)
RunCommands(ul, pkgs, cs) ==
    IF cs = <<>> THEN pkgs
    ELSE RunCommands(ul, RunCommand(ul, pkgs, Head(cs)), Tail(cs))

RECURSIVE RunPlan(_, _, _)
RunPlan(ul, pkgs, plan) ==
    IF plan = <<>> THEN pkgs
    ELSE RunPlan(ul, RunCommands(ul, pkgs, Head(plan).commands), Tail(plan))

----------------------------------------------------------------------------
\* backup_phone

IsRemoved(p) == p.state # "Enabled"

\* user_backup_of keeping only the packages that are not enabled.
user_backup_of_removed(user, rows) ==
    UserBackup(user.id,
        LET kept == SelectSeq(rows, IsRemoved)
        IN [j \in 1..Len(kept) |-> CorePackage(kept[j].name, kept[j].state)])

\* The UserBackup of one user: its id and every package row handed in, as
\* CorePackage { name, state }.
user_backup_of(user, rows) ==
    UserBackup(user.id, [j \in 1..Len(rows) |-> CorePackage(rows[j].name, rows[j].state)])

\* users.iter().enumerate().fold(..): Some(backup), or None when
\* phone_packages[index] is out of bounds (a panic).
RECURSIVE fold_users(_, _, _, _)
fold_users(users, i, acc, phone_packages) ==
    IF i > Len(users) THEN Some(acc)
    ELSE IF i \notin 1..Len(phone_packages) THEN None
    ELSE fold_users(users, i + 1,
             [acc EXCEPT !.users = Append(@, user_backup_of(users[i], phone_packages[i]))],
             phone_packages)

\* format!("{}.json", now.format("%Y-%m-%d_%H-%M-%S")): one name per second.
backup_filename(now) == now

\* What the file system may do with one fs::write: "ok"; "open" (the file
\* cannot be created or truncated); or the file is created or truncated and
\* the write fails part-way: "empty" (before any data), "half", "most" (all
\* but the end of the data).
WriteOutcomes == {"ok", "open", "empty", "half", "most"}

\* fs::write(path, data): creates or truncates the file, then writes.
fs_write(fs, path, data, io) ==
    CASE io = "ok" -> [fs EXCEPT ![path] = Some(data)]
      [] io = "open" -> fs
      [] io = "empty" -> [fs EXCEPT ![path] = Some(<<>>)]
      [] io = "half" -> [fs EXCEPT ![path] = Some(SubSeq(data, 1, Len(data) \div 2))]
      [] io = "most" -> [fs EXCEPT ![path] = Some(SubSeq(data, 1, Len(data) - 1))]

\* The call's outcome and the files after it.  mkdir: whether
\* fs::create_dir_all succeeds.  Serialising a PhoneBackup does not fail.
backup_phone(users, device_id, phone_packages, fs, now, mkdir, io) ==
    LET backup == fold_users(users, 1, PhoneBackup(device_id, <<>>), phone_packages)
    IN IF backup = None THEN [out |-> Panic(FALSE), fs |-> fs]
       ELSE IF ~mkdir THEN [out |-> Err(IoError, FALSE), fs |-> fs]
       ELSE LET json == to_string_pretty(backup[1])
                after == fs_write(fs, backup_filename(now), json, io)
            IN IF io = "ok" THEN [out |-> Ok(<<>>, FALSE), fs |-> after]
               ELSE [out |-> Err(IoError, FALSE), fs |-> after]

\* list_available_backups(dir): a handle per entry of the directory (in
\* the order read_dir gives them; kept as a set).
list_available_backups(fs) == {p \in DOMAIN fs : fs[p] # None}

\* list_available_backup_users(backup): the users of a backup with index 0,
\* or none when it cannot be read or parsed.
list_available_backup_users(fs, path) ==
    LET data == read_to_string(fs, path)
        b == IF data = None THEN None ELSE from_str(data[1])
    IN IF b = None THEN <<>>
       ELSE [i \in 1..Len(b[1].users) |-> User(b[1].users[i].id, 0)]

----------------------------------------------------------------------------
\* The state machine.

Last(op, out, path) == [op |-> op, out |-> out, path |-> path]
NoOp == Last("none", Ok(<<>>, FALSE), 0)

Settings(selected, selected_user) == [selected |-> selected, selected_user |-> selected_user]

\* The backup file restore_backup is run on: absent, a backup as written,
\* or a file cut short.
StoredFiles ==
    {None}
    \cup {Some(to_string_pretty(b)) : b \in PhoneBackups}
    \cup {Some(d) : d \in ShortWrites(to_string_pretty(PhoneBackup(DeviceId, <<>>)))}

\* A device, a backup file at timestamp 1 and the selections made in the
\* settings; restore_backup has not run.
Init ==
    /\ user_list \in UserLists
    /\ packages \in PackagesFor(user_list)
    /\ settings \in {Settings(b, u) : b \in {None, Some(1)},
                                      u \in {None} \cup {Some(User(i, 0)) : i \in UserIds}}
    /\ \E f \in StoredFiles : files = [t \in Timestamps |-> IF t = 1 THEN f ELSE None]
    /\ clock = 1
    /\ calls = 0
    /\ phase = "idle"
    /\ last = NoOp

RestoreBackup ==
    /\ phase = "idle"
    /\ last' = Last("restore", restore_backup([user_list |-> user_list], packages, settings, files), 0)
    /\ phase' = "restored"
    /\ UNCHANGED <<user_list, packages, settings, files, clock, calls>>

\* The caller runs the commands of a plan it was given.
ExecutePlan ==
    /\ phase = "restored"
    /\ last.out.kind = "Ok"
    /\ packages' = RunPlan(user_list, packages, last.out.plan)
    /\ phase' = "executed"
    /\ UNCHANGED <<user_list, settings, files, clock, calls, last>>

Next == RestoreBackup \/ ExecutePlan

Spec == Init /\ [][Next]_vars

\* A device with no backup yet.
InitBackup ==
    /\ user_list \in UserLists
    /\ packages \in PackagesFor(user_list)
    /\ settings = Settings(None, None)
    /\ files = [t \in Timestamps |-> None]
    /\ clock = 1
    /\ calls = 0
    /\ phase = "idle"
    /\ last = NoOp

\* The next second begins.  (Seconds in which no call is made are left out:
\* they change no file name.)
Tick ==
    /\ clock < MaxCalls
    /\ last.path = clock
    /\ clock' = clock + 1
    /\ UNCHANGED <<user_list, packages, settings, files, calls, phase, last>>

BackupPhone ==
    /\ calls < MaxCalls
    /\ \E mkdir \in BOOLEAN : \E io \in WriteOutcomes :
          LET r == backup_phone(user_list, DeviceId, packages, files, clock, mkdir, io)
          IN /\ files' = r.fs
             /\ last' = Last("backup", r.out, backup_filename(clock))
    /\ calls' = calls + 1
    /\ UNCHANGED <<user_list, packages, settings, clock, phase>>

NextBackup == Tick \/ BackupPhone

SpecBackup == InitBackup /\ [][NextBackup]_vars

----------------------------------------------------------------------------
\* What the properties of restore_backup speak about.

\* restore_backup has returned and the device is as it was at the call.
Restored == phase = "restored"

Device == [user_list |-> user_list]
BothSelected == settings.selected # None /\ settings.selected_user # None
SelectedData == read_to_string(files, settings.selected[1])

\* Both selections are made and the selected file reads and parses.
SnapshotRead ==
    /\ BothSelected
    /\ SelectedData # None
    /\ from_str(SelectedData[1]) # None

\* The parsed backup (where SnapshotRead holds).
Snapshot == from_str(SelectedData[1])[1]

\* The positions of a snapshot b: user u, package p of that user (1-based).
UserPositions(b) == 1..Len(b.users)
PackagePositions(b, u) == 1..Len(b.users[u].packages)
Positions(b) == UNION {{<<u, p>> : p \in PackagePositions(b, u)} : u \in UserPositions(b)}

LiveUsers(b, u) == {x \in 1..Len(user_list) : user_list[x].id = b.users[u].id}
\* The live user matched by id (where there is one).
LiveUser(b, u) == user_list[Min(LiveUsers(b, u))]
HasList(b, u) == LiveUser(b, u).index + 1 \in 1..Len(packages)
LiveList(b, u) == packages[LiveUser(b, u).index + 1]
LiveRows(b, u, p) ==
    {k \in 1..Len(LiveList(b, u)) : LiveList(b, u)[k].name = b.users[u].packages[p].name}
\* The live package with the name of the snapshot's package (where there is one).
LiveRow(b, u, p) == LiveList(b, u)[Min(LiveRows(b, u, p))]

\* PackageStateTransition for the snapshot's package p of user u.
Transition(b, u, p) ==
    apply_pkg_state_commands(CorePackage(LiveRow(b, u, p).name, LiveRow(b, u, p).state),
                             b.users[u].packages[p].state,
                             settings.selected_user[1], Device)

\* Traversal order of the snapshot: users, then each user's packages.
Earlier(e, f) == e[1] < f[1] \/ (e[1] = f[1] /\ e[2] < f[2])

Sentinel == BackupPackage(0, <<>>)
Plan == last.out.plan
\* The plan without its trailing entry.
RealEntries == IF Plan = <<>> THEN <<>> ELSE SubSeq(Plan, 1, Len(Plan) - 1)

\* C1: a plan that restore_backup returns is either empty, or ends with the
\* sentinel {index 0, no commands} after one or more entries that all have
\* commands; the sentinel alone is never returned.
C1_SentinelInvariant ==
    (Restored /\ last.out.kind = "Ok") =>
        \/ Plan = <<>>
        \/ /\ Len(Plan) >= 2
           /\ Plan[Len(Plan)] = Sentinel
           /\ \A i \in 1..(Len(Plan) - 1) : Plan[i].commands # <<>>

\* A plan of two entries with commands and the sentinel.
C1_Witness == Restored /\ last.out.kind = "Ok" /\ Len(Plan) = 3

\* The snapshot's packages whose transition has commands.
Changes(b) == {e \in Positions(b) : Transition(b, e[1], e[2]) # <<>>}

\* C9: on success the entries before the sentinel are, in traversal order,
\* one per snapshot package whose transition (computed on the live package
\* of that name of the user matched by id, for the selected user) has
\* commands; an entry holds the package's 0-based position in its own
\* user's list and the transition's commands.
C9_PlanContent ==
    (Restored /\ last.out.kind = "Ok") =>
        LET b == Snapshot
            changes == Changes(b)
            real == RealEntries
        IN /\ Len(real) = Cardinality(changes)
           /\ \A e \in changes :
                 real[Cardinality({f \in changes : Earlier(f, e)}) + 1]
                     = BackupPackage(e[2] - 1, Transition(b, e[1], e[2]))

\* A plan whose first entry is the second package of the first user and
\* whose second entry is the first package of the second user.
C9_Witness ==
    /\ Restored /\ last.out.kind = "Ok" /\ Len(Plan) = 3
    /\ Plan[1].index = 1 /\ Plan[2].index = 0
    /\ Len(Snapshot.users) = 2

\* Every user of snapshot b is a user of the device and every package of
\* the snapshot exists in that user's live list, in the state the snapshot
\* recorded.
Converged(b) ==
    \A u \in UserPositions(b) :
        /\ LiveUsers(b, u) # {}
        /\ \A p \in PackagePositions(b, u) :
              /\ HasList(b, u)
              /\ \E k \in 1..Len(LiveList(b, u)) :
                    /\ LiveList(b, u)[k].name = b.users[u].packages[p].name
                    /\ LiveList(b, u)[k].state = b.users[u].packages[p].state

\* C3: when the snapshot is read and the device already is in the state the
\* snapshot recorded, restore_backup returns the empty plan, without sentinel.
C3_Idempotence ==
    (Restored /\ SnapshotRead) =>
        LET b == Snapshot
        IN Converged(b) => last.out = Ok(<<>>, TRUE)

\* A converged device for a snapshot of two users with two packages each.
C3_Witness ==
    /\ Restored /\ SnapshotRead
    /\ LET b == Snapshot
       IN /\ Converged(b)
          /\ Len(b.users) = 2
          /\ \A u \in UserPositions(b) : Len(b.users[u].packages) = 2

\* The misses of the traversal: <<u, 0>> for a user whose id the live user
\* table does not have, <<u, p>> for a package whose name the user's live
\* package list does not have.
Misses(b) ==
    {<<u, 0>> : u \in {x \in UserPositions(b) : LiveUsers(b, x) = {}}}
    \cup {e \in Positions(b) :
            /\ LiveUsers(b, e[1]) # {}
            /\ HasList(b, e[1])
            /\ LiveRows(b, e[1], e[2]) = {}}

FirstOf(misses) == CHOOSE e \in misses : \A f \in misses : f = e \/ Earlier(e, f)

MissError(b, e) ==
    IF e[2] = 0 THEN UserNotFound(b.users[e[1]].id)
    ELSE PackageNotFound(b.users[e[1]].packages[e[2]].name, b.users[e[1]].id)

\* C2: when the snapshot is read and some user or package of it is missing
\* on the device, restore_backup returns the error of the first miss in
\* traversal order, and no plan.
C2_AllOrNothing ==
    (Restored /\ SnapshotRead) =>
        LET b == Snapshot
            misses == Misses(b)
        IN misses # {} => last.out = Err(MissError(b, FirstOf(misses)), TRUE)

\* C10: restore_backup always returns: a plan or an error value.
C10_AlwaysReturns == Restored => last.out.kind \in {"Ok", "Err"}

\* C6: with the backup or the user not selected, restore_backup fails with
\* NoSelection naming the missing one, before any read of the file.
C6_SelectionBeforeRead ==
    (Restored /\ ~BothSelected) =>
        last.out = Err(IF settings.selected = None THEN NoBackupSelected ELSE NoUserSelected,
                       FALSE)

\* C6, amended: with no backup selected the call fails with
\* NoSelection(backup) and reads no file; with a backup but no user selected
\* the file is read and parsed first: the call fails with Io when the file
\* cannot be read, with Parse when it does not parse, and with
\* NoSelection(user) otherwise.
C6_SelectionOrder ==
    (Restored /\ ~BothSelected) =>
        IF settings.selected = None THEN last.out = Err(NoBackupSelected, FALSE)
        ELSE IF SelectedData = None THEN last.out = Err(IoError, TRUE)
        ELSE IF from_str(SelectedData[1]) = None THEN last.out = Err(ParseError, TRUE)
        ELSE last.out = Err(NoUserSelected, TRUE)

\* A backup is selected, no user is, and the file cannot be read.
C6_Witness ==
    /\ Restored /\ settings.selected # None /\ settings.selected_user = None
    /\ SelectedData = None
    /\ last.out.err = IoError

\* C5: after the commands of a returned plan have run, every package of
\* every user of the snapshot is in the state the snapshot recorded for
\* that user.
C5_Convergence ==
    (phase = "executed" /\ SnapshotRead) =>
        LET b == Snapshot
        IN Converged(b)

----------------------------------------------------------------------------
\* What the properties of backup_phone speak about.

\* The step is a call of backup_phone that returned Ok / an error.
BackupReturnedOk == calls' = calls + 1 /\ last'.out.kind = "Ok"
BackupReturnedErr == calls' = calls + 1 /\ last'.out.kind = "Err"

\* The files that hold a whole snapshot.
Snapshots(fs) == {p \in DOMAIN fs : fs[p] # None /\ from_str(fs[p][1]) # None}

C7_FreshAndReadOnly ==
    [][BackupReturnedOk =>
          /\ last'.path \notin Snapshots(files)
          /\ \A p \in Snapshots(files) : files'[p] = files[p]]_vars

\* C8: a backup_phone that returns an error leaves no new file in the
\* directory, whole or cut short.
C8_NoPartialFile ==
    [][BackupReturnedErr =>
          list_available_backups(files') \subseteq list_available_backups(files)]_vars

====
